---- MODULE Spec2Model ----
(***************************************************************************)
(* A model of src/stock_analysis.py: the two loaders (LoadCSV,            *)
(* LoadTriplet) that parse text files into trading records attached to    *)
(* the stocks of a collection, and the three analysers (HighLow,          *)
(* MovingAverage, GapUp) that visit records through process / reset /     *)
(* result.                                                                 *)
(*                                                                         *)
(* Text is modelled as sequences of one-character strings, so that        *)
(* splitting, stripping and number parsing are computed, not assumed.     *)
(* A Python float is modelled as a number of tenths (1.5 is 15); every    *)
(* numeric text of the input pools has at most one fractional digit, so   *)
(* the representation is exact on them.  An int is itself.                *)
(***************************************************************************)
EXTENDS Integers, Sequences, FiniteSets, TLC

VARIABLES
    fs,        \* the files on disk: file name -> sequence of lines
    stocks,    \* the StockCollection: stock code -> sequence of records
    loader,    \* the loader being run: "none", "csv" or "trp"
    fname,     \* the file the running loader reads
    pos,       \* number of lines of the file the loop has consumed
    status,    \* "idle", "running", "done" or "error"
    err,       \* message of the RuntimeError raised ("" when none)
    buf,       \* LoadTriplet._process's locals
    log,       \* the loads started so far, <<loader, file name>> each
    base,      \* the collection as it was when the running load started
    an,        \* the analyser instance
    fed,       \* days handed to process() since construction or reset()
    out,       \* outcome of the last analyser call
    hist       \* the analyser calls made since construction

loadVars == <<fs, stocks, loader, fname, pos, status, err, buf, log, base>>
anVars == <<an, fed, out, hist>>
vars == <<fs, stocks, loader, fname, pos, status, err, buf, log, base,
          an, fed, out, hist>>

-----------------------------------------------------------------------------
(* Bounds of the model *)

\* most lines in a CSV file
MaxCsvLines == 3
\* most lines in a Triplet file (two full groups)
MaxTrpLines == 12
\* most loads run one after the other into the same collection
MaxLoads == 2
\* most calls (process, reset, result) made on one analyser instance
MaxCalls == 5
\* largest window of a MovingAverage
MaxN == 3

-----------------------------------------------------------------------------
(* Text helpers: Python's str.split, str.strip, float() and int() *)

NL == "\n"

Whitespace == {" ", NL, "\t", "\r"}

Digits == <<"0", "1", "2", "3", "4", "5", "6", "7", "8", "9">>

IsDigit(c) == \E i \in 1..10 : Digits[i] = c

DigitVal(c) == (CHOOSE i \in 1..10 : Digits[i] = c) - 1

\* s.split(sep): the fields between the separators, at least one field
RECURSIVE SplitFrom(_, _, _, _)
SplitFrom(s, sep, i, cur) ==
    IF i > Len(s) THEN <<cur>>
    ELSE IF s[i] = sep THEN <<cur>> \o SplitFrom(s, sep, i + 1, <<>>)
    ELSE SplitFrom(s, sep, i + 1, Append(cur, s[i]))

Split(s, sep) == SplitFrom(s, sep, 1, <<>>)

\* s.strip(chars): drop leading and trailing characters of the set
RECURSIVE LStrip(_, _)
LStrip(s, chars) ==
    IF s # <<>> /\ Head(s) \in chars THEN LStrip(Tail(s), chars) ELSE s

RECURSIVE RStrip(_, _)
RStrip(s, chars) ==
    IF s # <<>> /\ s[Len(s)] \in chars
    THEN RStrip(SubSeq(s, 1, Len(s) - 1), chars) ELSE s

Strip(s, chars) == RStrip(LStrip(s, chars), chars)

AllDigits(s) == \A i \in 1..Len(s) : IsDigit(s[i])

\* value of a digit string, most significant digit first
RECURSIVE DigitsVal(_)
DigitsVal(s) ==
    IF s = <<>> THEN 0
    ELSE 10 * DigitsVal(SubSeq(s, 1, Len(s) - 1)) + DigitVal(s[Len(s)])

Unsigned(t) == IF t # <<>> /\ Head(t) \in {"+", "-"} THEN Tail(t) ELSE t

Sign(t) == IF t # <<>> /\ Head(t) = "-" THEN -1 ELSE 1

\* int(s): surrounding whitespace ignored, an optional sign, then digits
\* only.  ok = FALSE stands for ValueError.
ParseInt(s) ==
    LET t == Strip(s, Whitespace)
        d == Unsigned(t)
    IN  IF d # <<>> /\ AllDigits(d)
        THEN [ok |-> TRUE, val |-> Sign(t) * DigitsVal(d)]
        ELSE [ok |-> FALSE, val |-> 0]

\* float(s): surrounding whitespace ignored, an optional sign, digits with
\* an optional fraction, at least one digit.  The value is in tenths.
\* ok = FALSE stands for ValueError.
ParseFloat(s) ==
    LET t == Strip(s, Whitespace)
        d == Unsigned(t)
        parts == Split(d, ".")
        ip == parts[1]
        fp == IF Len(parts) = 2 THEN parts[2] ELSE <<>>
        tenth == IF fp = <<>> THEN 0 ELSE DigitVal(fp[1])
    IN  IF /\ Len(parts) <= 2
           /\ AllDigits(ip) /\ AllDigits(fp)
           /\ Len(ip) + Len(fp) > 0
        THEN [ok |-> TRUE, val |-> Sign(t) * (10 * DigitsVal(ip) + tenth)]
        ELSE [ok |-> FALSE, val |-> 0]

-----------------------------------------------------------------------------
(* The stocks module the program imports: TradingData, StockCollection *)

\* stocks.TradingData(date, day_open, day_high, day_low, day_close, volume)
TradingData(date, day_open, day_high, day_low, day_close, volume) ==
    [date |-> date, open |-> day_open, high |-> day_high, low |-> day_low,
     close |-> day_close, volume |-> volume]

\* StockCollection.get_stock(code): the collection with the stock present,
\* created empty on first use
get_stock(coll, code) ==
    IF code \in DOMAIN coll THEN coll ELSE coll @@ (code :> <<>>)

\* get_stock(code).add_day_data(day)
add_day_data(coll, code, day) ==
    LET c == get_stock(coll, code)
    IN  [c EXCEPT ![code] = Append(@, day)]

-----------------------------------------------------------------------------
(* Input pools: the texts the files are made of *)

ADV == <<"A", "D", "V">>
YOW == <<"Y", "O", "W">>
Codes == {ADV, YOW}

\* a trading day as data; floats in tenths
Day1 == [date |-> <<"2", "0", "2", "3", "-", "0", "1", "-", "0", "1">>,
         open |-> 10, high |-> 20, low |-> 5, close |-> 15, volume |-> 100]
Day2 == [date |-> <<"2", "0", "2", "3", "-", "0", "1", "-", "0", "2">>,
         open |-> 16, high |-> 25, low |-> 12, close |-> 21, volume |-> 250]
Days == {Day1, Day2}

\* decimal text of a natural number
RECURSIVE FmtInt(_)
FmtInt(n) ==
    IF n < 10 THEN <<Digits[n + 1]>>
    ELSE FmtInt(n \div 10) \o <<Digits[(n % 10) + 1]>>

\* decimal text of a number of tenths: 15 is "1.5"
FmtTenths(n) == FmtInt(n \div 10) \o <<".", Digits[(n % 10) + 1]>>

RECURSIVE Join(_, _)
Join(fields, sep) ==
    IF Len(fields) = 0 THEN <<>>
    ELSE IF Len(fields) = 1 THEN fields[1]
    ELSE fields[1] \o <<sep>> \o Join(Tail(fields), sep)

Garbage == <<"a", "b", "c">>

\* the 7 fields of the CSV line of a stock code and a day
CsvFields(code, d) ==
    <<code, d.date, FmtTenths(d.open), FmtTenths(d.high), FmtTenths(d.low),
      FmtTenths(d.close), FmtInt(d.volume)>>

CsvRaw(fields) == Join(fields, ",") \o <<NL>>

CsvLine(code, d) == CsvRaw(CsvFields(code, d))

GoodCsvLines == {CsvLine(c, d) : c \in Codes, d \in Days}

\* fields with the positions of I replaced by text x
Subst(fields, I, x) ==
    [i \in 1..Len(fields) |-> IF i \in I THEN x ELSE fields[i]]

\* 7-field lines with one or two unparseable numeric fields
BadNumberCsvLines ==
    {CsvRaw(Subst(CsvFields(ADV, Day1), I, Garbage)) :
        I \in {J \in SUBSET (3..7) : Cardinality(J) \in {1, 2}}}
    \cup {CsvRaw(Subst(CsvFields(ADV, Day1), {7}, FmtTenths(15))),
          CsvRaw(Subst(CsvFields(ADV, Day1), {5}, <<>>))}

\* lines that do not have 7 fields: 6, 8, an empty line, 6 with a bad number
BadCountCsvLines ==
    {CsvRaw(SubSeq(CsvFields(ADV, Day1), 1, 6)),
     CsvRaw(CsvFields(ADV, Day1) \o <<FmtInt(7)>>),
     <<NL>>,
     CsvRaw(SubSeq(Subst(CsvFields(YOW, Day2), {3}, Garbage), 1, 6)),
     CsvRaw(SubSeq(CsvFields(YOW, Day2), 1, 1))}

BadCsvLines == BadNumberCsvLines \cup BadCountCsvLines

\* sequences of at most n elements of S
SeqsUpTo(S, n) == UNION {[1..k -> S] : k \in 0..n}

\* f with at most one line replaced by a line of pool
WithOneEdit(f, pool) ==
    {f} \cup {[f EXCEPT ![p] = v] : p \in 1..Len(f), v \in pool}

\* CSV files: well-formed lines, at most one of them replaced by a bad line
CsvFiles ==
    UNION {WithOneEdit(f, BadCsvLines) : f \in SeqsUpTo(GoodCsvLines, MaxCsvLines)}

-----------------------------------------------------------------------------
(* LoadCSV *)

MsgCount == "Error: not enough parameters in the file."
MsgOpen == "Error:'day_open' not a float."
MsgHigh == "Error: 'day_high' not a float."
MsgLow == "Error: 'day_low' not a float."
MsgClose == "Error: 'day_close' not a float."
MsgVolume == "Error: 'volume' not an integer."

\* field i of a split line, empty when the line has fewer fields
FieldOr(all_data, i) == IF i <= Len(all_data) THEN all_data[i] ELSE <<>>

\* CsvStep that parses the numbers before it checks the field count
CsvStepParseFirst(coll, line) ==
    LET all_data == Split(line, ",")
        day_open == ParseFloat(FieldOr(all_data, 3))
        day_high == ParseFloat(FieldOr(all_data, 4))
        day_low == ParseFloat(FieldOr(all_data, 5))
        day_close == ParseFloat(FieldOr(all_data, 6))
        volume == ParseInt(Strip(FieldOr(all_data, 7), {NL}))
    IN  IF ~day_open.ok THEN [err |-> MsgOpen, stocks |-> coll]
        ELSE IF ~day_high.ok THEN [err |-> MsgHigh, stocks |-> coll]
        ELSE IF ~day_low.ok THEN [err |-> MsgLow, stocks |-> coll]
        ELSE IF ~day_close.ok THEN [err |-> MsgClose, stocks |-> coll]
        ELSE IF ~volume.ok THEN [err |-> MsgVolume, stocks |-> coll]
        ELSE IF Len(all_data) # 7 THEN [err |-> MsgCount, stocks |-> coll]
        ELSE [err |-> "",
              stocks |-> add_day_data(coll, all_data[1],
                             TradingData(all_data[2], day_open.val,
                                 day_high.val, day_low.val, day_close.val,
                                 volume.val))]

\* CsvStep that fetches the stock before it parses the numbers
CsvStepStockFirst(coll, line) ==
    LET all_data == Split(line, ",")
    IN  IF Len(all_data) # 7 THEN [err |-> MsgCount, stocks |-> coll]
        ELSE
        LET entry == get_stock(coll, all_data[1])
            day_open == ParseFloat(all_data[3])
            day_high == ParseFloat(all_data[4])
            day_low == ParseFloat(all_data[5])
            day_close == ParseFloat(all_data[6])
            volume == ParseInt(Strip(all_data[7], {NL}))
        IN  IF ~day_open.ok THEN [err |-> MsgOpen, stocks |-> entry]
            ELSE IF ~day_high.ok THEN [err |-> MsgHigh, stocks |-> entry]
            ELSE IF ~day_low.ok THEN [err |-> MsgLow, stocks |-> entry]
            ELSE IF ~day_close.ok THEN [err |-> MsgClose, stocks |-> entry]
            ELSE IF ~volume.ok THEN [err |-> MsgVolume, stocks |-> entry]
            ELSE [err |-> "",
                  stocks |-> add_day_data(entry, all_data[1],
                                 TradingData(all_data[2], day_open.val,
                                     day_high.val, day_low.val,
                                     day_close.val, volume.val))]

\* CsvStep that hands day_low and day_high to TradingData in each other's
\* place
CsvStepSwapped(coll, line) ==
    LET all_data == Split(line, ",")
    IN  IF Len(all_data) # 7 THEN [err |-> MsgCount, stocks |-> coll]
        ELSE
        LET day_open == ParseFloat(all_data[3])
            day_high == ParseFloat(all_data[4])
            day_low == ParseFloat(all_data[5])
            day_close == ParseFloat(all_data[6])
            volume == ParseInt(Strip(all_data[7], {NL}))
        IN  IF ~day_open.ok THEN [err |-> MsgOpen, stocks |-> coll]
            ELSE IF ~day_high.ok THEN [err |-> MsgHigh, stocks |-> coll]
            ELSE IF ~day_low.ok THEN [err |-> MsgLow, stocks |-> coll]
            ELSE IF ~day_close.ok THEN [err |-> MsgClose, stocks |-> coll]
            ELSE IF ~volume.ok THEN [err |-> MsgVolume, stocks |-> coll]
            ELSE [err |-> "",
                  stocks |-> add_day_data(coll, all_data[1],
                                 TradingData(all_data[2], day_open.val,
                                     day_low.val, day_high.val,
                                     day_close.val, volume.val))]

\* CsvStep that converts the volume before the four prices
CsvStepVolumeFirst(coll, line) ==
    LET all_data == Split(line, ",")
    IN  IF Len(all_data) # 7 THEN [err |-> MsgCount, stocks |-> coll]
        ELSE
        LET day_open == ParseFloat(all_data[3])
            day_high == ParseFloat(all_data[4])
            day_low == ParseFloat(all_data[5])
            day_close == ParseFloat(all_data[6])
            volume == ParseInt(Strip(all_data[7], {NL}))
        IN  IF ~volume.ok THEN [err |-> MsgVolume, stocks |-> coll]
            ELSE IF ~day_open.ok THEN [err |-> MsgOpen, stocks |-> coll]
            ELSE IF ~day_high.ok THEN [err |-> MsgHigh, stocks |-> coll]
            ELSE IF ~day_low.ok THEN [err |-> MsgLow, stocks |-> coll]
            ELSE IF ~day_close.ok THEN [err |-> MsgClose, stocks |-> coll]
            ELSE [err |-> "",
                  stocks |-> add_day_data(coll, all_data[1],
                                 TradingData(all_data[2], day_open.val,
                                     day_high.val, day_low.val,
                                     day_close.val, volume.val))]

\* CsvStep that leaves out a record the stock already holds
CsvStepDedup(coll, line) ==
    LET all_data == Split(line, ",")
    IN  IF Len(all_data) # 7 THEN [err |-> MsgCount, stocks |-> coll]
        ELSE
        LET day_open == ParseFloat(all_data[3])
            day_high == ParseFloat(all_data[4])
            day_low == ParseFloat(all_data[5])
            day_close == ParseFloat(all_data[6])
            volume == ParseInt(Strip(all_data[7], {NL}))
            entry == get_stock(coll, all_data[1])
            day == TradingData(all_data[2], day_open.val, day_high.val,
                               day_low.val, day_close.val, volume.val)
        IN  IF ~day_open.ok THEN [err |-> MsgOpen, stocks |-> coll]
            ELSE IF ~day_high.ok THEN [err |-> MsgHigh, stocks |-> coll]
            ELSE IF ~day_low.ok THEN [err |-> MsgLow, stocks |-> coll]
            ELSE IF ~day_close.ok THEN [err |-> MsgClose, stocks |-> coll]
            ELSE IF ~volume.ok THEN [err |-> MsgVolume, stocks |-> coll]
            ELSE IF \E i \in 1..Len(entry[all_data[1]]) :
                       entry[all_data[1]][i] = day
                 THEN [err |-> "", stocks |-> entry]
            ELSE [err |-> "", stocks |-> add_day_data(coll, all_data[1], day)]

\* one iteration of the loop of LoadCSV._process on a line: the error it
\* raises ("" when none) and the collection it leaves
CsvStep(coll, line) ==
    LET all_data == Split(line, ",")
    IN  IF Len(all_data) # 7 THEN [err |-> MsgCount, stocks |-> coll]
        ELSE
        LET stock_code == all_data[1]
            date == all_data[2]
            day_open == ParseFloat(all_data[3])
            day_high == ParseFloat(all_data[4])
            day_low == ParseFloat(all_data[5])
            day_close == ParseFloat(all_data[6])
            volume == ParseInt(Strip(all_data[7], {NL}))
        IN  IF ~day_open.ok THEN [err |-> MsgOpen, stocks |-> coll]
            ELSE IF ~day_high.ok THEN [err |-> MsgHigh, stocks |-> coll]
            ELSE IF ~day_low.ok THEN [err |-> MsgLow, stocks |-> coll]
            ELSE IF ~day_close.ok THEN [err |-> MsgClose, stocks |-> coll]
            ELSE IF ~volume.ok THEN [err |-> MsgVolume, stocks |-> coll]
            ELSE [err |-> "",
                  stocks |-> add_day_data(coll, stock_code,
                                 TradingData(date, day_open.val, day_high.val,
                                     day_low.val, day_close.val, volume.val))]

\* locals of LoadTriplet._process before its loop
TripletLocals ==
    [count |-> 0, stock_code |-> 0, date |-> <<>>, day_open |-> 0,
     day_high |-> 0, day_low |-> 0, day_close |-> 0, volume |-> 0]

CanLoad == status \in {"idle", "done", "error"} /\ Len(log) < MaxLoads

\* LoadCSV(filename, stocks): the constructor opens the file and runs _process
NewLoadCSV(name) ==
    /\ CanLoad
    /\ loader' = "csv" /\ fname' = name /\ pos' = 0
    /\ status' = "running" /\ err' = ""
    /\ base' = stocks
    /\ log' = Append(log, <<"csv", name>>)
    /\ UNCHANGED <<fs, stocks, buf>>
    /\ UNCHANGED anVars

\* one iteration of "for line in file" in LoadCSV._process
CSVLine ==
    /\ loader = "csv" /\ status = "running" /\ pos < Len(fs[fname])
    /\ LET r == CsvStep(stocks, fs[fname][pos + 1])
       IN  IF r.err # ""
           THEN /\ status' = "error" /\ err' = r.err
                /\ stocks' = r.stocks
                /\ UNCHANGED pos
           ELSE /\ stocks' = r.stocks /\ pos' = pos + 1
                /\ UNCHANGED <<status, err>>
    /\ UNCHANGED <<fs, loader, fname, buf, log, base>>
    /\ UNCHANGED anVars

\* the loop of LoadCSV._process runs out of lines
CSVEnd ==
    /\ loader = "csv" /\ status = "running" /\ pos = Len(fs[fname])
    /\ status' = "done"
    /\ UNCHANGED <<fs, stocks, loader, fname, pos, err, buf, log, base>>
    /\ UNCHANGED anVars

-----------------------------------------------------------------------------
(* Triplet input pools *)

DA == <<"D", "A">>
OP == <<"O", "P">>
HI == <<"H", "I">>
LO == <<"L", "O">>
CL == <<"C", "L">>
VO == <<"V", "O">>
XX == <<"X", "X">>

Keys == <<DA, OP, HI, LO, CL, VO>>

\* lines of a complete Triplet record (line 266)
GroupSize == 6

\* the text a day carries under a key
KeyText(d, key) ==
    IF key = DA THEN d.date
    ELSE IF key = OP THEN FmtTenths(d.open)
    ELSE IF key = HI THEN FmtTenths(d.high)
    ELSE IF key = LO THEN FmtTenths(d.low)
    ELSE IF key = CL THEN FmtTenths(d.close)
    ELSE FmtInt(d.volume)

TrpRaw(tokens) == Join(tokens, ":") \o <<NL>>

\* A Triplet line as data: its tokens, the number it carries (tenths, or a
\* volume; 0 when it carries none) and whether it is malformed, that is not
\* 3 tokens, or a key OP, HI, LO, CL without a float, or VO without an integer.
TrpDesc(tokens, num, bad) == [tokens |-> tokens, num |-> num, bad |-> bad]

\* the number a day carries under a key
KeyVal(d, key) ==
    IF key = DA THEN 0
    ELSE IF key = OP THEN d.open
    ELSE IF key = HI THEN d.high
    ELSE IF key = LO THEN d.low
    ELSE IF key = CL THEN d.close
    ELSE d.volume

DayDesc(code, key, d) ==
    TrpDesc(<<code, key, KeyText(d, key)>>, KeyVal(d, key), FALSE)

TrpLine(code, key, d) == TrpRaw(DayDesc(code, key, d).tokens)

\* the group a line position belongs to, counting from 1
GroupOf(i) == ((i - 1) \div GroupSize) + 1

\* groups carry Day1 and Day2 in turn, and each group starts one key later
\* than the one before, so that the key order differs between groups
DayOfGroup(g) == IF g % 2 = 1 THEN Day1 ELSE Day2

KeyAt(i) == Keys[(((i - 1) + (GroupOf(i) - 1)) % GroupSize) + 1]

\* the well-formed Triplet file of n lines whose g-th group names cs[g]
CanonTrp(cs, n) ==
    [i \in 1..n |-> TrpLine(cs[GroupOf(i)], KeyAt(i), DayOfGroup(GroupOf(i)))]

\* lines put in place of a well-formed line: a repeated key (which leaves
\* another key out of the group), another stock code, a float without a
\* fraction, an unknown key, a date that is no date; and the malformed ones
VariantDescs ==
    {TrpDesc(<<ADV, HI, FmtTenths(95)>>, 95, FALSE),
     TrpDesc(<<YOW, CL, FmtTenths(85)>>, 85, FALSE),
     TrpDesc(<<ADV, LO, FmtInt(3)>>, 30, FALSE),
     TrpDesc(<<ADV, XX, FmtInt(7)>>, 0, FALSE),
     TrpDesc(<<YOW, XX, Garbage>>, 0, FALSE),
     TrpDesc(<<ADV, DA, Garbage>>, 0, FALSE),
     TrpDesc(<<ADV, OP, Garbage>>, 0, TRUE),
     TrpDesc(<<ADV, CL, <<>>>>, 0, TRUE),
     TrpDesc(<<ADV, VO, FmtTenths(15)>>, 0, TRUE),
     TrpDesc(<<ADV, OP>>, 0, TRUE),
     TrpDesc(<<ADV, OP, FmtTenths(10), FmtInt(2)>>, 0, TRUE),
     TrpDesc(<< <<>> >>, 0, TRUE)}

TrpVariants == {TrpRaw(d.tokens) : d \in VariantDescs}

TrpFiles ==
    UNION {WithOneEdit(CanonTrp(cs, n), TrpVariants) :
              cs \in [1..GroupOf(MaxTrpLines) -> Codes], n \in 0..MaxTrpLines}

-----------------------------------------------------------------------------
(* LoadTriplet *)

MsgTriplet == "Error: Invalid data in file. Could not process."

\* TripletParse that reads the volume with float() instead of int()
TripletParseFloatVolume(b, line) ==
    LET tokens == Split(line, ":")
    IN  IF Len(tokens) # 3 THEN [raised |-> TRUE, buf |-> b]
        ELSE
        LET key == tokens[2]
            data == tokens[3]
            b1 == [b EXCEPT !.stock_code = tokens[1]]
            f == ParseFloat(data)
            bad == [raised |-> TRUE, buf |-> b1]
            counted(b2) == [raised |-> FALSE,
                            buf |-> [b2 EXCEPT !.count = @ + 1]]
        IN  IF key = DA THEN counted([b1 EXCEPT !.date = data])
            ELSE IF key = OP
                 THEN IF f.ok THEN counted([b1 EXCEPT !.day_open = f.val]) ELSE bad
            ELSE IF key = HI
                 THEN IF f.ok THEN counted([b1 EXCEPT !.day_high = f.val]) ELSE bad
            ELSE IF key = LO
                 THEN IF f.ok THEN counted([b1 EXCEPT !.day_low = f.val]) ELSE bad
            ELSE IF key = CL
                 THEN IF f.ok THEN counted([b1 EXCEPT !.day_close = f.val]) ELSE bad
            ELSE IF key = VO
                 THEN IF f.ok THEN counted([b1 EXCEPT !.volume = f.val]) ELSE bad
            ELSE counted(b1)

\* TripletParse that keeps the stock code of the first line of a group
TripletParseFirstCode(b, line) ==
    LET tokens == Split(line, ":")
    IN  IF Len(tokens) # 3 THEN [raised |-> TRUE, buf |-> b]
        ELSE
        LET key == tokens[2]
            data == tokens[3]
            b1 == IF b.count = 0 THEN [b EXCEPT !.stock_code = tokens[1]]
                  ELSE b
            f == ParseFloat(data)
            n == ParseInt(data)
            bad == [raised |-> TRUE, buf |-> b1]
            counted(b2) == [raised |-> FALSE,
                            buf |-> [b2 EXCEPT !.count = @ + 1]]
        IN  IF key = DA THEN counted([b1 EXCEPT !.date = data])
            ELSE IF key = OP
                 THEN IF f.ok THEN counted([b1 EXCEPT !.day_open = f.val]) ELSE bad
            ELSE IF key = HI
                 THEN IF f.ok THEN counted([b1 EXCEPT !.day_high = f.val]) ELSE bad
            ELSE IF key = LO
                 THEN IF f.ok THEN counted([b1 EXCEPT !.day_low = f.val]) ELSE bad
            ELSE IF key = CL
                 THEN IF f.ok THEN counted([b1 EXCEPT !.day_close = f.val]) ELSE bad
            ELSE IF key = VO
                 THEN IF n.ok THEN counted([b1 EXCEPT !.volume = n.val]) ELSE bad
            ELSE counted(b1)

\* TripletParse that counts a line only when it knows the key
TripletParseKnownKeysCount(b, line) ==
    LET tokens == Split(line, ":")
    IN  IF Len(tokens) # 3 THEN [raised |-> TRUE, buf |-> b]
        ELSE
        LET key == tokens[2]
            data == tokens[3]
            b1 == [b EXCEPT !.stock_code = tokens[1]]
            f == ParseFloat(data)
            n == ParseInt(data)
            bad == [raised |-> TRUE, buf |-> b1]
            counted(b2) == [raised |-> FALSE,
                            buf |-> [b2 EXCEPT !.count = @ + 1]]
        IN  IF key = DA THEN counted([b1 EXCEPT !.date = data])
            ELSE IF key = OP
                 THEN IF f.ok THEN counted([b1 EXCEPT !.day_open = f.val]) ELSE bad
            ELSE IF key = HI
                 THEN IF f.ok THEN counted([b1 EXCEPT !.day_high = f.val]) ELSE bad
            ELSE IF key = LO
                 THEN IF f.ok THEN counted([b1 EXCEPT !.day_low = f.val]) ELSE bad
            ELSE IF key = CL
                 THEN IF f.ok THEN counted([b1 EXCEPT !.day_close = f.val]) ELSE bad
            ELSE IF key = VO
                 THEN IF n.ok THEN counted([b1 EXCEPT !.volume = n.val]) ELSE bad
            ELSE [raised |-> FALSE, buf |-> b1]

\* the try block of one iteration of LoadTriplet._process: the locals it
\* leaves, and whether it raised ValueError
TripletParse(b, line) ==
    LET tokens == Split(line, ":")
    IN  IF Len(tokens) # 3 THEN [raised |-> TRUE, buf |-> b]
        ELSE
        LET key == tokens[2]
            data == tokens[3]
            b1 == [b EXCEPT !.stock_code = tokens[1]]
            f == ParseFloat(data)
            n == ParseInt(data)
            bad == [raised |-> TRUE, buf |-> b1]
            counted(b2) == [raised |-> FALSE,
                            buf |-> [b2 EXCEPT !.count = @ + 1]]
        IN  IF key = DA THEN counted([b1 EXCEPT !.date = data])
            ELSE IF key = OP
                 THEN IF f.ok THEN counted([b1 EXCEPT !.day_open = f.val]) ELSE bad
            ELSE IF key = HI
                 THEN IF f.ok THEN counted([b1 EXCEPT !.day_high = f.val]) ELSE bad
            ELSE IF key = LO
                 THEN IF f.ok THEN counted([b1 EXCEPT !.day_low = f.val]) ELSE bad
            ELSE IF key = CL
                 THEN IF f.ok THEN counted([b1 EXCEPT !.day_close = f.val]) ELSE bad
            ELSE IF key = VO
                 THEN IF n.ok THEN counted([b1 EXCEPT !.volume = n.val]) ELSE bad
            ELSE counted(b1)

\* TripletFlush that emits on the 6th line but does not restart the count
TripletFlushNoRestart(b, coll) ==
    IF b.count = GroupSize
    THEN [buf |-> b,
          stocks |-> add_day_data(coll, b.stock_code,
                         TradingData(b.date, b.day_open, b.day_high,
                                     b.day_low, b.day_close, b.volume))]
    ELSE [buf |-> b, stocks |-> coll]

\* the "if count == 6" block that ends an iteration: the locals and the
\* collection it leaves
TripletFlush(b, coll) ==
    IF b.count = GroupSize
    THEN [buf |-> [b EXCEPT !.count = 0],
          stocks |-> add_day_data(coll, b.stock_code,
                         TradingData(b.date, b.day_open, b.day_high,
                                     b.day_low, b.day_close, b.volume))]
    ELSE [buf |-> b, stocks |-> coll]

\* LoadTriplet(filename, stocks): the constructor opens the file and runs
\* _process, which first sets its locals
NewLoadTriplet(name) ==
    /\ CanLoad
    /\ loader' = "trp" /\ fname' = name /\ pos' = 0
    /\ status' = "running" /\ err' = ""
    /\ buf' = TripletLocals
    /\ base' = stocks
    /\ log' = Append(log, <<"trp", name>>)
    /\ UNCHANGED <<fs, stocks>>
    /\ UNCHANGED anVars

\* one iteration of "for line in file" in LoadTriplet._process
TripletLine ==
    /\ loader = "trp" /\ status = "running" /\ pos < Len(fs[fname])
    /\ LET p == TripletParse(buf, fs[fname][pos + 1])
           r == TripletFlush(p.buf, stocks)
       IN  IF p.raised
           THEN /\ status' = "error" /\ err' = MsgTriplet
                /\ buf' = p.buf
                /\ UNCHANGED <<stocks, pos>>
           ELSE /\ buf' = r.buf /\ stocks' = r.stocks /\ pos' = pos + 1
                /\ UNCHANGED <<status, err>>
    /\ UNCHANGED <<fs, loader, fname, log, base>>
    /\ UNCHANGED anVars

\* the loop of LoadTriplet._process runs out of lines
TripletEnd ==
    /\ loader = "trp" /\ status = "running" /\ pos = Len(fs[fname])
    /\ status' = "done"
    /\ UNCHANGED <<fs, stocks, loader, fname, pos, err, buf, log, base>>
    /\ UNCHANGED anVars

-----------------------------------------------------------------------------
(* The loaders' specification: one file on disk, loaded up to MaxLoads    *)
(* times by either loader into a collection that starts empty.            *)

NoAnalyser == [kind |-> "none"]
NoOutcome == [op |-> "none"]

EmptyCollection == <<>>

InitIdle ==
    /\ stocks = EmptyCollection
    /\ loader = "none" /\ fname = "" /\ pos = 0
    /\ status = "idle" /\ err = ""
    /\ buf = TripletLocals
    /\ log = <<>>
    /\ base = EmptyCollection
    /\ an = NoAnalyser /\ fed = <<>> /\ out = NoOutcome /\ hist = <<>>

Init ==
    /\ fs \in {("f" :> c) : c \in CsvFiles \cup TrpFiles}
    /\ InitIdle

Next ==
    \/ \E name \in DOMAIN fs : NewLoadCSV(name)
    \/ CSVLine
    \/ CSVEnd
    \/ \E name \in DOMAIN fs : NewLoadTriplet(name)
    \/ TripletLine
    \/ TripletEnd

Spec == Init /\ [][Next]_vars

(* One day of one stock on disk twice: as a CSV line, and as its six       *)
(* Triplet lines in any of their 720 orders.                               *)

KeyOrders ==
    {p \in [1..GroupSize -> 1..GroupSize] :
        \A i, j \in 1..GroupSize : p[i] = p[j] => i = j}

PermFiles ==
    {[i \in 1..GroupSize |-> TrpLine(ADV, Keys[p[i]], Day1)] :
        p \in KeyOrders}

InitPerm ==
    /\ fs \in {("csv" :> <<CsvLine(ADV, Day1)>>) @@ ("trp" :> f) :
                 f \in PermFiles}
    /\ InitIdle

SpecPerm == InitPerm /\ [][Next]_vars

-----------------------------------------------------------------------------
(* Analysers.  An outcome is the exception a call raised ("" when none)   *)
(* and the value it returned, wrapped in a sequence (<<>> is None).        *)

None == <<>>
Some(v) == <<v>>

Returned(op, v) == [op |-> op, exc |-> "", val |-> v]
Raised(op, e) == [op |-> op, exc |-> e, val |-> None]

\* a Python list, and a Python int, as the value of one attribute
PyList(l) == [type |-> "list", v |-> l]
PyInt(n) == [type |-> "int", v |-> <<n>>]

Day3 == [date |-> <<"2", "0", "2", "3", "-", "0", "1", "-", "0", "3">>,
         open |-> 30, high |-> 31, low |-> 2, close |-> 12, volume |-> 70]

\* the records the analysers are fed
AnalyserDays ==
    {TradingData(d.date, d.open, d.high, d.low, d.close, d.volume) :
        d \in {Day1, Day2, Day3}}

\* the significance thresholds of GapUp, in tenths
Deltas == {1, 10}

RECURSIVE PyMax(_)
PyMax(l) ==
    IF Len(l) = 1 THEN l[1]
    ELSE LET m == PyMax(Tail(l)) IN IF l[1] >= m THEN l[1] ELSE m

RECURSIVE PyMin(_)
PyMin(l) ==
    IF Len(l) = 1 THEN l[1]
    ELSE LET m == PyMin(Tail(l)) IN IF l[1] <= m THEN l[1] ELSE m

RECURSIVE PySum(_)
PySum(l) == IF l = <<>> THEN 0 ELSE l[1] + PySum(Tail(l))

\* l[::-1]
Reverse(l) == [i \in 1..Len(l) |-> l[Len(l) + 1 - i]]

\* l[:n] for n >= 0
Take(l, n) == SubSeq(l, 1, IF n < Len(l) THEN n ELSE Len(l))

CanCall(kind) == an.kind = kind /\ Len(hist) < MaxCalls

Called(op) == hist' = Append(hist, op)

(* HighLow *)

NewHighLow == [kind |-> "HighLow", high |-> <<>>, low |-> <<>>]

HighLowProcess(a, day) ==
    [a EXCEPT !.high = Append(@, day.high), !.low = Append(@, day.low)]

\* HighLowReset that forgets to clear the lows
HighLowResetHighsOnly(a) == [a EXCEPT !.high = <<>>]

HighLowReset(a) == [a EXCEPT !.high = <<>>, !.low = <<>>]

\* min() and max() of an empty list raise ValueError
HighLowResult(a) ==
    IF a.low = <<>> \/ a.high = <<>> THEN Raised("result", "ValueError")
    ELSE Returned("result", Some(<<PyMax(a.high), PyMin(a.low)>>))

HLProcess ==
    /\ CanCall("HighLow")
    /\ \E day \in AnalyserDays :
          /\ an' = HighLowProcess(an, day)
          /\ fed' = Append(fed, day)
    /\ out' = Returned("process", None)
    /\ Called("process")
    /\ UNCHANGED loadVars

HLReset ==
    /\ CanCall("HighLow")
    /\ an' = HighLowReset(an)
    /\ fed' = <<>>
    /\ out' = Returned("reset", None)
    /\ Called("reset")
    /\ UNCHANGED loadVars

HLResult ==
    /\ CanCall("HighLow")
    /\ out' = HighLowResult(an)
    /\ Called("result")
    /\ UNCHANGED <<an, fed>>
    /\ UNCHANGED loadVars

(* MovingAverage *)

NewMovingAverage(num_days) ==
    [kind |-> "MovingAverage", num_days |-> num_days, days_counted |-> 0,
     moving_average |-> PyList(<<>>)]

\* the count is raised first; append on an int raises AttributeError, which
\* the except ValueError clause does not catch
MovingAverageProcess(a, day) ==
    LET a1 == [a EXCEPT !.days_counted = @ + 1]
    IN  IF a1.moving_average.type = "list"
        THEN [an |-> [a1 EXCEPT !.moving_average =
                                    PyList(Append(@.v, day.close))],
              out |-> Returned("process", None)]
        ELSE [an |-> a1, out |-> Raised("process", "AttributeError")]

MovingAverageReset(a) ==
    [a EXCEPT !.days_counted = 0, !.moving_average = PyInt(0)]

\* MovingAverageResult that does not reverse the list, and so averages the
\* oldest closes
MovingAverageResultOldest(a) ==
    IF a.moving_average.type # "list"
    THEN [an |-> a, out |-> Raised("result", "TypeError")]
    ELSE
    LET final_figures == Take(a.moving_average.v, a.num_days)
    IN  IF a.num_days = 0
        THEN [an |-> a, out |-> Raised("result", "ZeroDivisionError")]
        ELSE [an |-> a,
              out |-> Returned("result",
                          Some(<<PySum(final_figures), a.num_days>>))]

\* slicing an int raises TypeError; the reversed list is stored back before
\* the division, which raises ZeroDivisionError for a window of 0.  The
\* quotient sum / num_days is kept as the pair <<sum, num_days>>.
MovingAverageResult(a) ==
    IF a.moving_average.type # "list"
    THEN [an |-> a, out |-> Raised("result", "TypeError")]
    ELSE
    LET reversed == Reverse(a.moving_average.v)
        a1 == [a EXCEPT !.moving_average = PyList(reversed)]
        final_figures == Take(reversed, a.num_days)
    IN  IF a.num_days = 0
        THEN [an |-> a1, out |-> Raised("result", "ZeroDivisionError")]
        ELSE [an |-> a1,
              out |-> Returned("result",
                          Some(<<PySum(final_figures), a.num_days>>))]

MAProcess ==
    /\ CanCall("MovingAverage")
    /\ \E day \in AnalyserDays :
          LET r == MovingAverageProcess(an, day)
          IN  /\ an' = r.an /\ out' = r.out
              /\ fed' = Append(fed, day)
    /\ Called("process")
    /\ UNCHANGED loadVars

MAReset ==
    /\ CanCall("MovingAverage")
    /\ an' = MovingAverageReset(an)
    /\ fed' = <<>>
    /\ out' = Returned("reset", None)
    /\ Called("reset")
    /\ UNCHANGED loadVars

MAResult ==
    /\ CanCall("MovingAverage")
    /\ LET r == MovingAverageResult(an)
       IN  an' = r.an /\ out' = r.out
    /\ Called("result")
    /\ UNCHANGED fed
    /\ UNCHANGED loadVars

(* GapUp *)

NewGapUp(delta) ==
    [kind |-> "GapUp", delta |-> delta, closing_value |-> None,
     gap_ups |-> <<>>]

\* GapUpProcess that compares with > instead of >=
GapUpProcessStrict(a, day) ==
    IF a.closing_value = None
    THEN [a EXCEPT !.closing_value = Some(day.close)]
    ELSE LET a1 == IF day.open - a.closing_value[1] > a.delta
                   THEN [a EXCEPT !.gap_ups = Append(@, day)]
                   ELSE a
         IN  [a1 EXCEPT !.closing_value = Some(day.close)]

GapUpProcess(a, day) ==
    IF a.closing_value = None
    THEN [a EXCEPT !.closing_value = Some(day.close)]
    ELSE LET a1 == IF day.open - a.closing_value[1] >= a.delta
                   THEN [a EXCEPT !.gap_ups = Append(@, day)]
                   ELSE a
         IN  [a1 EXCEPT !.closing_value = Some(day.close)]

GapUpReset(a) == [a EXCEPT !.closing_value = None, !.gap_ups = <<>>]

GapUpResult(a) ==
    IF a.gap_ups # <<>>
    THEN Returned("result", Some(a.gap_ups[Len(a.gap_ups)]))
    ELSE Returned("result", None)

GUProcess ==
    /\ CanCall("GapUp")
    /\ \E day \in AnalyserDays :
          /\ an' = GapUpProcess(an, day)
          /\ fed' = Append(fed, day)
    /\ out' = Returned("process", None)
    /\ Called("process")
    /\ UNCHANGED loadVars

GUReset ==
    /\ CanCall("GapUp")
    /\ an' = GapUpReset(an)
    /\ fed' = <<>>
    /\ out' = Returned("reset", None)
    /\ Called("reset")
    /\ UNCHANGED loadVars

GUResult ==
    /\ CanCall("GapUp")
    /\ out' = GapUpResult(an)
    /\ Called("result")
    /\ UNCHANGED <<an, fed>>
    /\ UNCHANGED loadVars

\* a freshly constructed analyser of each kind and parameter
NewAnalysers ==
    {NewHighLow}
    \cup {NewMovingAverage(n) : n \in 0..MaxN}
    \cup {NewGapUp(d) : d \in Deltas}

\* the construction an analyser instance came from
Fresh(a) ==
    IF a.kind = "HighLow" THEN NewHighLow
    ELSE IF a.kind = "MovingAverage" THEN NewMovingAverage(a.num_days)
    ELSE NewGapUp(a.delta)

InitAnalyse ==
    /\ fs = <<>>
    /\ stocks = EmptyCollection
    /\ loader = "none" /\ fname = "" /\ pos = 0
    /\ status = "idle" /\ err = ""
    /\ buf = TripletLocals
    /\ log = <<>>
    /\ base = EmptyCollection
    /\ an \in NewAnalysers
    /\ fed = <<>> /\ out = NoOutcome /\ hist = <<>>

NextAnalyse ==
    \/ HLProcess \/ HLReset \/ HLResult
    \/ MAProcess \/ MAReset \/ MAResult
    \/ GUProcess \/ GUReset \/ GUResult

SpecAnalyse == InitAnalyse /\ [][NextAnalyse]_vars

-----------------------------------------------------------------------------
(* Properties of the analysers, checked under SpecAnalyse *)

Count(h, op) == Cardinality({i \in 1..Len(h) : h[i] = op})

\* the instance has just answered result()
Answered(kind) == an.kind = kind /\ out.op = "result"

\* process() and result() of whatever kind the instance is
ProcessOf(a, day) ==
    IF a.kind = "HighLow" THEN HighLowProcess(a, day)
    ELSE IF a.kind = "MovingAverage" THEN MovingAverageProcess(a, day).an
    ELSE GapUpProcess(a, day)

ResultOf(a) ==
    IF a.kind = "HighLow" THEN HighLowResult(a)
    ELSE IF a.kind = "MovingAverage" THEN MovingAverageResult(a).out
    ELSE GapUpResult(a)

\* the instance after processing the records of S in order
RECURSIVE Traverse(_, _)
Traverse(a, S) ==
    IF S = <<>> THEN a
    ELSE ProcessOf(Traverse(a, SubSeq(S, 1, Len(S) - 1)), S[Len(S)])

\* calls made so far: some process(), one reset(), some process(), then the
\* one result()
ReusedOnce ==
    /\ out.op = "result"
    /\ Count(hist, "result") = 1
    /\ Count(hist, "reset") = 1

\* what a caller sees of a call: that it failed, or the value it returned
Outcome(o) == [failed |-> o.exc # "", val |-> o.val]

\* C2: for HighLow, MovingAverage and GapUp, an instance that was reset()
\* after some process() calls gives for result(), after processing a record
\* sequence S, the same outcome (value or failure) as a freshly constructed
\* instance with the same parameter that processes S.
C2_ResetReusable ==
    ReusedOnce => Outcome(out) = Outcome(ResultOf(Traverse(Fresh(an), fed)))

\* the part of C2 that the code keeps: HighLow and GapUp
C2_ResetReusableHighLowGapUp ==
    (ReusedOnce /\ an.kind # "MovingAverage")
        => Outcome(out) = Outcome(ResultOf(Traverse(Fresh(an), fed)))

\* sum of f[i].close for i in lo..hi
RECURSIVE SumCloses(_, _, _)
SumCloses(f, lo, hi) ==
    IF lo > hi THEN 0 ELSE f[hi].close + SumCloses(f, lo, hi - 1)

Smaller(a, b) == IF a <= b THEN a ELSE b

\* the first result() of a fresh instance: no reset(), no earlier result()
FirstResult(kind) ==
    /\ Answered(kind)
    /\ Count(hist, "result") = 1
    /\ Count(hist, "reset") = 0

\* C3: the first result() of a fresh MovingAverage(n), n >= 1, that has
\* processed closes c1..ck returns the sum of the last min(n, k) closes
\* divided by n, also when k < n.
C3_MovingAverageWindow ==
    (FirstResult("MovingAverage") /\ an.num_days >= 1) =>
        LET k == Len(fed)
            m == Smaller(an.num_days, k)
        IN  out = Returned("result",
                      Some(<<SumCloses(fed, k - m + 1, k), an.num_days>>))

\* C3's case: more records than the window, the oldest and the newest close
\* differing
C3_Witness ==
    /\ FirstResult("MovingAverage")
    /\ an.num_days \in 1..(Len(fed) - 1)
    /\ fed[1].close # fed[Len(fed)].close
    /\ out.exc = ""

\* the positions of f whose open is at least delta above the close of the
\* record just before
GapPositions(f, delta) ==
    {i \in 2..Len(f) : f[i].open - f[i - 1].close >= delta}

Largest(S) == CHOOSE x \in S : \A y \in S : y <= x

\* C4: result() of a fresh GapUp(delta) that has processed d1..dk returns the
\* record di of largest i >= 2 with di.open - d(i-1).close >= delta, and None
\* when there is none (k = 0 and k = 1 included).
C4_GapUpLatest ==
    (Answered("GapUp") /\ Count(hist, "reset") = 0) =>
        LET I == GapPositions(fed, an.delta)
        IN  out = Returned("result",
                      IF I = {} THEN None ELSE Some(fed[Largest(I)]))

\* C4's case: a record qualifies right after one that did not, and the last
\* record does not qualify
C4_Witness ==
    /\ Answered("GapUp") /\ Count(hist, "reset") = 0
    /\ LET I == GapPositions(fed, an.delta)
       IN  /\ I # {}
           /\ Largest(I) < Len(fed)
           /\ Largest(I) - 1 \notin I
    /\ out.val # None

HighestHigh(f) ==
    CHOOSE x \in {f[i].high : i \in 1..Len(f)} :
        \A i \in 1..Len(f) : f[i].high <= x

LowestLow(f) ==
    CHOOSE x \in {f[i].low : i \in 1..Len(f)} :
        \A i \in 1..Len(f) : x <= f[i].low

\* C5: result() of a HighLow that has processed k >= 1 records since
\* construction or the last reset() returns (highest high, lowest low) of
\* them; with k = 0 it raises an error.
C5_HighLowRange ==
    Answered("HighLow") =>
        IF fed = <<>> THEN out.exc = "ValueError"
        ELSE out = Returned("result",
                       Some(<<HighestHigh(fed), LowestLow(fed)>>))

\* C5's case: records processed, a reset(), then two records processed whose
\* range is narrower than that of the records before the reset()
C5_Witness ==
    /\ Answered("HighLow")
    /\ hist = <<"process", "reset", "process", "process", "result">>
    /\ out.val = Some(<<25, 5>>)

-----------------------------------------------------------------------------
(* Properties of the loaders, checked under Spec (C7 under SpecPerm).     *)
(* What a load should leave is stated from the data the lines were        *)
(* written from, not from the parsing of the loaders.                     *)

\* the file of the running loader, and the lines its loop has consumed
File == fs[fname]
Consumed == SubSeq(File, 1, pos)

\* a text has n fields: it holds n - 1 separators
NumFields(line, sep) ==
    Cardinality({i \in 1..Len(line) : line[i] = sep}) + 1

\* the collection b after the pairs (stock code, record) were applied in
\* order: each code is present, its records follow those it had
RECURSIVE RecsOf(_, _)
RecsOf(pairs, code) ==
    IF pairs = <<>> THEN <<>>
    ELSE LET rest == RecsOf(SubSeq(pairs, 1, Len(pairs) - 1), code)
             last == pairs[Len(pairs)]
         IN  IF last.code = code THEN Append(rest, last.rec) ELSE rest

CollectionAfter(b, pairs) ==
    [c \in DOMAIN b \cup {pairs[i].code : i \in 1..Len(pairs)} |->
        (IF c \in DOMAIN b THEN b[c] ELSE <<>>) \o RecsOf(pairs, c)]

TotalRecords(coll) ==
    LET RECURSIVE Sum(_)
        Sum(S) == IF S = {} THEN 0
                  ELSE LET c == CHOOSE x \in S : TRUE
                       IN  Len(coll[c]) + Sum(S \ {c})
    IN  Sum(DOMAIN coll)

\* the record of a day, under the date text a loader kept
RecordOfDay(d, date) ==
    [date |-> date, open |-> d.open, high |-> d.high, low |-> d.low,
     close |-> d.close, volume |-> d.volume]

\* each well-formed CSV line with the code and the day it was written from
CsvRendered == {<<CsvLine(c, d), c, d>> : c \in Codes, d \in Days}

\* the line has 7 comma-separated fields with parseable numbers
WellFormedCsv(line) == \E r \in CsvRendered : r[1] = line

CsvSource(line) == CHOOSE r \in CsvRendered : r[1] = line

CsvPairs(lines) ==
    [i \in 1..Len(lines) |->
        [code |-> CsvSource(lines[i])[2],
         rec |-> RecordOfDay(CsvSource(lines[i])[3],
                             CsvSource(lines[i])[3].date)]]

\* C1: LoadCSV._process on a file whose every line has 7 fields with
\* parseable numbers raises nothing and appends one record per line, built
\* from fields 2..7, to the stock named by field 1: after each line every
\* stock holds the records it had followed by those of its lines so far, in
\* file order, and no other stock exists or changes.
C1_CsvOneRecordPerLine ==
    (loader = "csv" /\ \A i \in 1..Len(File) : WellFormedCsv(File[i])) =>
        /\ status # "error"
        /\ status = "done" => pos = Len(File)
        /\ stocks = CollectionAfter(base, CsvPairs(Consumed))

\* C1's case: a second load of a file of three lines, two of one stock on
\* different days around one of another stock, has ended
C1_Witness ==
    /\ loader = "csv" /\ status = "done" /\ Len(log) = 2
    /\ Len(File) = 3
    /\ \A i \in 1..Len(File) : WellFormedCsv(File[i])
    /\ CsvSource(File[1])[2] = CsvSource(File[3])[2]
    /\ CsvSource(File[1])[2] # CsvSource(File[2])[2]
    /\ CsvSource(File[1])[3] # CsvSource(File[3])[3]
    /\ base # EmptyCollection

\* each line of the Triplet pools with the data it was written from
TrpRendered ==
    {<<TrpRaw(d.tokens), d>> :
        d \in {DayDesc(c, k, dd) :
                  c \in Codes, k \in {Keys[i] : i \in 1..GroupSize},
                  dd \in Days}
              \cup VariantDescs}

\* a line no pool holds splits on ":" into one token only
TrpSource(line) ==
    IF \E r \in TrpRendered : r[1] = line
    THEN (CHOOSE r \in TrpRendered : r[1] = line)[2]
    ELSE TrpDesc(<<line>>, 0, TRUE)

\* not 3 tokens, or a key OP, HI, LO, CL without a float, or VO without an
\* integer
MalformedTrp(line) == TrpSource(line).bad

\* the last of the lines lo..hi that carries the key, 0 when none does
LastWithKey(lines, lo, hi, key) ==
    LET I == {i \in lo..hi : TrpSource(lines[i]).tokens[2] = key}
    IN  IF I = {} THEN 0 ELSE Largest(I)

\* the record whose fields are those of the last line of lo..hi carrying
\* each key, and the initial value of the local where no line carries it;
\* a date keeps the line terminator that follows it
RecordFromLines(lines, lo, hi) ==
    LET at(key) == LastWithKey(lines, lo, hi, key)
        num(key) == IF at(key) = 0 THEN 0
                    ELSE TrpSource(lines[at(key)]).num
    IN  [date |-> IF at(DA) = 0 THEN <<>>
                  ELSE TrpSource(lines[at(DA)]).tokens[3] \o <<NL>>,
         open |-> num(OP), high |-> num(HI), low |-> num(LO),
         close |-> num(CL), volume |-> num(VO)]

\* one pair per complete group of 6 lines: the code of the group's last
\* line, and the record of the values buffered since the first line
TrpPairs(lines) ==
    [j \in 1..(Len(lines) \div GroupSize) |->
        [code |-> TrpSource(lines[GroupSize * j]).tokens[1],
         rec |-> RecordFromLines(lines, 1, GroupSize * j)]]

\* C6: in LoadTriplet._process the record emitted after every 6th line has
\* in every field the value of a line of its own group of 6 lines, or the
\* initial default; never a value buffered from a line of an earlier group.
C6_GroupIsolated ==
    (loader = "trp" /\ status \in {"running", "done"}
        /\ pos > 0 /\ pos % GroupSize = 0) =>
        LET emitted == stocks[TrpSource(File[pos]).tokens[1]]
        IN  emitted[Len(emitted)] =
                RecordFromLines(File, pos - GroupSize + 1, pos)

\* C7: the six Triplet lines of one stock and day, in any of their 720
\* orders, loaded by LoadTriplet append exactly one record to the stock,
\* equal in date, open, high, low, close and volume to the record LoadCSV
\* appends for the CSV line of the same code and values.
C7_TripletEqualsCsv ==
    (status = "done" /\ log = << <<"csv", "csv">>, <<"trp", "trp">> >>) =>
        /\ DOMAIN stocks = {ADV}
        /\ Len(stocks[ADV]) = 2
        /\ stocks[ADV][2] = stocks[ADV][1]

\* the part of C7 that the code keeps: one record, equal in the five
\* numbers; its date is the CSV date followed by the line terminator
C7_TripletEqualsCsvButDate ==
    (status = "done" /\ log = << <<"csv", "csv">>, <<"trp", "trp">> >>) =>
        /\ DOMAIN stocks = {ADV}
        /\ Len(stocks[ADV]) = 2
        /\ stocks[ADV][2] =
               [stocks[ADV][1] EXCEPT !.date = @ \o <<NL>>]

\* the line is malformed for the running loader
Malformed(line) ==
    IF loader = "csv" THEN ~WellFormedCsv(line) ELSE MalformedTrp(line)

\* what a load of the lines leaves of the collection b
LoadedFrom(b, lines) ==
    IF loader = "csv" THEN CollectionAfter(b, CsvPairs(lines))
    ELSE CollectionAfter(b, TrpPairs(lines))

\* C8: when a load (LoadCSV or LoadTriplet) fails on a malformed line at
\* position k, the collection is what the load of the k - 1 lines before it
\* leaves: their records stay appended, nothing is appended and no stock is
\* created for line k or a later line.
C8_NoRollbackNoContinuation ==
    status = "error" =>
        /\ pos < Len(File)
        /\ \A i \in 1..pos : ~Malformed(File[i])
        /\ Malformed(File[pos + 1])
        /\ stocks = LoadedFrom(base, Consumed)

\* C8's case: a Triplet load fails in its second group, after it emitted
\* the record of the first, with well-formed lines of another stock after
\* the malformed one
C8_Witness ==
    /\ status = "error" /\ loader = "trp"
    /\ pos > GroupSize /\ pos + 1 < Len(File)
    /\ stocks # base
    /\ \E i \in (pos + 2)..Len(File) :
          /\ ~MalformedTrp(File[i])
          /\ TrpSource(File[i]).tokens[1] \notin DOMAIN stocks

\* C9: LoadCSV._process raises the field-count error for every line that
\* does not split on commas into exactly 7 fields (fewer, more, an empty
\* line), before it parses a number or fetches a stock for that line.
C9_CsvFieldCount ==
    loader = "csv" =>
        /\ \A i \in 1..pos : NumFields(File[i], ",") = 7
        /\ status = "done" => pos = Len(File)
        /\ (status = "error" /\ NumFields(File[pos + 1], ",") # 7) =>
              /\ err = MsgCount
              /\ DOMAIN stocks =
                     DOMAIN base \cup {CsvSource(File[i])[2] : i \in 1..pos}

\* C9's case: the load fails on a line of 6 fields whose open is not a
\* number and whose stock the collection does not hold
C9_Witness ==
    /\ loader = "csv" /\ status = "error" /\ pos >= 1
    /\ NumFields(File[pos + 1], ",") = 6
    /\ ~ParseFloat(Split(File[pos + 1], ",")[3]).ok
    /\ Split(File[pos + 1], ",")[1] \notin DOMAIN stocks

\* C10: LoadTriplet._process raises its error and stops at the first line
\* that is not 3 tokens, or has a key OP, HI, LO, CL without a float, or VO
\* without an integer; no record is emitted for the group of that line.
C10_TripletStopsAtMalformed ==
    loader = "trp" =>
        /\ \A i \in 1..pos : ~MalformedTrp(File[i])
        /\ status = "done" => pos = Len(File)
        /\ status = "error" =>
              /\ pos < Len(File) /\ MalformedTrp(File[pos + 1])
              /\ err = MsgTriplet
              /\ TotalRecords(stocks) =
                     TotalRecords(base) + (pos \div GroupSize)

\* C10's case: the load fails on the 6th line of its second group
C10_Witness ==
    /\ loader = "trp" /\ status = "error"
    /\ pos = 2 * GroupSize - 1
    /\ TotalRecords(stocks) = TotalRecords(base) + 1

\* the 7-field lines with unparseable numbers as data: the positions of the
\* fields that do not parse, and the text put there
BadNumberSubsts ==
    {<<I, Garbage>> : I \in {J \in SUBSET (3..7) : Cardinality(J) \in {1, 2}}}
    \cup {<<{7}, FmtTenths(15)>>, <<{5}, <<>>>>}

BadNumberRendered ==
    {<<CsvRaw(Subst(CsvFields(ADV, Day1), p[1], p[2])), p[1]>> :
        p \in BadNumberSubsts}

\* the positions of the unparseable fields of a line, {} when it has none
BadPositions(line) ==
    IF \E r \in BadNumberRendered : r[1] = line
    THEN (CHOOSE r \in BadNumberRendered : r[1] = line)[2]
    ELSE {}

Smallest(S) == CHOOSE x \in S : \A y \in S : x <= y

\* the message that names the field at a position: open is field 3, high 4,
\* low 5, close 6, volume 7
MsgOfField(i) == <<MsgOpen, MsgHigh, MsgLow, MsgClose, MsgVolume>>[i - 2]

\* C11: for a 7-field CSV line with one or more unparseable numeric fields
\* LoadCSV._process raises the error that names the first unparseable field
\* in the order open, high, low, close, volume, and appends no record for
\* the line.
C11_CsvFirstBadField ==
    (loader = "csv" /\ status = "error"
        /\ NumFields(File[pos + 1], ",") = 7) =>
        /\ BadPositions(File[pos + 1]) # {}
        /\ err = MsgOfField(Smallest(BadPositions(File[pos + 1])))
        /\ TotalRecords(stocks) = TotalRecords(base) + pos

\* C11's case: the load fails, after a line it consumed, on a line with two
\* unparseable fields of which the volume is the second
C11_Witness ==
    /\ loader = "csv" /\ status = "error" /\ pos >= 1
    /\ NumFields(File[pos + 1], ",") = 7
    /\ Cardinality(BadPositions(File[pos + 1])) = 2
    /\ 7 \in BadPositions(File[pos + 1])

\* no line of the file is malformed for the running loader
WellFormedFile == \A i \in 1..Len(File) : ~Malformed(File[i])

\* the pairs (stock code, record) the whole file contributes
FilePairs == IF loader = "csv" THEN CsvPairs(File) ELSE TrpPairs(File)

\* the load that has ended is the second in a row of the same file by the
\* same loader
LoadedTwice ==
    /\ status = "done"
    /\ Len(log) >= 2
    /\ log[Len(log)] = log[Len(log) - 1]

C13_PositionalGroups ==
    (loader = "trp" /\ \A i \in 1..Len(File) : ~MalformedTrp(File[i])) =>
        /\ status # "error"
        /\ status = "done" => pos = Len(File)
        /\ TotalRecords(stocks) = TotalRecords(base) + (pos \div GroupSize)

\* C13's case: a load has ended on a file of one group and some trailing
\* lines, in which a line was replaced by a variant
C13_Witness ==
    /\ loader = "trp" /\ status = "done"
    /\ Len(File) > GroupSize /\ Len(File) % GroupSize # 0
    /\ \E i \in 1..GroupSize : File[i] \in TrpVariants
    /\ TotalRecords(stocks) = TotalRecords(base) + 1

\* C14: MovingAverage.result() is a read-only query: called twice in a row
\* it returns the same value both times, and a result() between two
\* process() calls does not change what a later result() returns; that is,
\* whatever result() calls came before, result() answers as an instance
\* does that processed the same records and was never asked before.
C14_ResultReadOnly ==
    (Answered("MovingAverage") /\ Count(hist, "reset") = 0) =>
        Outcome(out) = Outcome(ResultOf(Traverse(Fresh(an), fed)))

\* what C14 comes to in the code: the first result() only
C14_FirstResultOnly ==
    FirstResult("MovingAverage") =>
        Outcome(out) = Outcome(ResultOf(Traverse(Fresh(an), fed)))

\* the stock code a Triplet line names
CodeOfLine(line) == TrpSource(line).tokens[1]

\* the positions, among the lines consumed, of the 6th lines of the groups
GroupEnds == {GroupSize * j : j \in 1..(pos \div GroupSize)}

\* C15: the record of a 6-line Triplet group goes to the stock named by the
\* group's 6th line only: a stock named only by other lines of the group
\* receives no record from it and is not created by it.
C15_SixthLineNamesStock ==
    (loader = "trp" /\ status \in {"running", "done"}) =>
        /\ DOMAIN stocks =
               DOMAIN base \cup {CodeOfLine(File[i]) : i \in GroupEnds}
        /\ \A c \in DOMAIN stocks :
              Len(stocks[c]) =
                  (IF c \in DOMAIN base THEN Len(base[c]) ELSE 0)
                  + Cardinality({i \in GroupEnds : CodeOfLine(File[i]) = c})

\* C15's case: the first group has been emitted, one of its first five
\* lines names a stock its 6th line does not, and the collection does not
\* hold that stock
C15_Witness ==
    /\ loader = "trp" /\ status = "running" /\ pos = GroupSize
    /\ \E i \in 1..(GroupSize - 1) :
          /\ CodeOfLine(File[i]) # CodeOfLine(File[GroupSize])
          /\ CodeOfLine(File[i]) \notin DOMAIN stocks
    /\ TotalRecords(stocks) = 1

\* the line is 3 tokens whose key is none of DA, OP, HI, LO, CL, VO
UnknownKey(line) ==
    /\ Len(TrpSource(line).tokens) = 3
    /\ TrpSource(line).tokens[2] \notin {Keys[i] : i \in 1..GroupSize}

\* the six values LoadTriplet._process has buffered
Buffered ==
    [date |-> buf.date, open |-> buf.day_open, high |-> buf.day_high,
     low |-> buf.day_low, close |-> buf.day_close, volume |-> buf.volume]

\* C16: a Triplet line of 3 tokens whose key is none of DA, OP, HI, LO, CL,
\* VO raises no error, leaves the six buffered values as they were before
\* it, and counts as one of the 6 lines of its group.
C16_UnknownKeyCounts ==
    loader = "trp" =>
        /\ (status = "error") => ~UnknownKey(File[pos + 1])
        /\ (status \in {"running", "done"} /\ pos >= 1
                /\ UnknownKey(File[pos])) =>
              /\ Buffered = RecordFromLines(File, 1, pos - 1)
              /\ buf.count = pos % GroupSize

\* C16's case: a line with an unknown key and a value that is no number was
\* consumed as the 6th line of the second group, whose record was emitted
C16_Witness ==
    /\ loader = "trp" /\ status = "running" /\ pos = 2 * GroupSize
    /\ UnknownKey(File[pos])
    /\ ~ParseFloat(TrpSource(File[pos]).tokens[3]).ok
    /\ buf.count = 0
    /\ TotalRecords(stocks) = TotalRecords(base) + 2

====
